---- MODULE Spec2Model ----
(***************************************************************************)
(* Model of distgen's Generator (src/distgen/generator.py): configure(),   *)
(* check_input_consistency() and beam().                                   *)
(*                                                                         *)
(* beam() is one sequential function; it is cut into its phases (one       *)
(* action per phase, in source order) so that the intermediate states are  *)
(* visible.  An exception ends the call: pc = "error", err/errline say     *)
(* which exception was raised where.                                       *)
(*                                                                         *)
(* Numbers.  The ensemble has two particles.  With two particles the       *)
(* affine moment correction is exact in integers: raw - mean = +-(a-b)/2   *)
(* and the empirical std is |a-b|/2, so corrected = target_mean +-         *)
(* target_std.  Uniform samples are quarters (u = 0..3 stands for u/4), so *)
(* the implicit theta 2*pi*u is a multiple of pi/2 and cos/sin are         *)
(* integers.  The radial rms is kept in units of sqrt(2).                  *)
(***************************************************************************)
EXTENDS Integers, Sequences, FiniteSets, TLC

VARIABLES input, params, pc, err, errline, beam_params, transforms,
          dist_params, bdist, avgs, stds, npop, allocated, rns, count,
          reads, pre, returned

vars == <<input, params, pc, err, errline, beam_params, transforms,
          dist_params, bdist, avgs, stds, npop, allocated, rns, count,
          reads, pre, returned>>

(* ---------------- bounds of the model ---------------- *)
MaxOther == 1
MaxSeed == 1
MaxTransforms == 1

(* ---------------- small helpers ---------------- *)
Particles == {1, 2}
Other(p) == 3 - p
Abs(n) == IF n < 0 THEN -n ELSE n
Sgn(n) == IF n < 0 THEN -1 ELSE IF n > 0 THEN 1 ELSE 0
Xor(a, b) == a # b
Has(d, k) == k \in DOMAIN d
Put(d, k, v) == [x \in (DOMAIN d) \cup {k} |-> IF x = k THEN v ELSE d[x]]
EmptyDict == [x \in {} |-> 0]
Zeros == [p \in Particles |-> 0]
ISqrt(n) == CHOOSE k \in 0..n : k * k = n

(* ordered mapping of <coord>_dist keys: a sequence of [var, rec] *)
HasDist(ds, v) == \E i \in 1..Len(ds) : ds[i].var = v
GetDist(ds, v) == ds[CHOOSE i \in 1..Len(ds) : ds[i].var = v].rec
SetDist(ds, v, rec) ==
    IF HasDist(ds, v)
    THEN [i \in 1..Len(ds) |-> IF ds[i].var = v THEN [var |-> v, rec |-> rec] ELSE ds[i]]
    ELSE Append(ds, [var |-> v, rec |-> rec])
PopDist(ds, v) == SelectSeq(ds, LAMBDA e : e.var # v)

(* ---------------- the configurations tried ---------------- *)
KeyOrder == <<"r", "theta", "x", "y", "xy", "z", "px", "py", "pz", "t">>
DistVars == {KeyOrder[i] : i \in 1..Len(KeyOrder)}
TransverseVars == {"r", "theta", "x", "y", "xy"}
OtherVars == DistVars \ TransverseVars

\* a distribution record: kind "d" has distribution-implied mean m, std s
\* (and rms, in units of sqrt 2) from its kind-specific parameters.
Plain(v) == [type |-> "d", m |-> 1, s |-> 2, rms |-> 2]
Overridden(v) ==
    IF v = "r" THEN ("sigma_xy" :> 3) @@ Plain(v)
    ELSE (("avg_" \o v) :> 3) @@ (("sigma_" \o v) :> 1) @@ Plain(v)
MkDists(S, ov) ==
    LET ks == SelectSeq(KeyOrder, LAMBDA v : v \in S)
    IN [i \in 1..Len(ks) |->
          [var |-> ks[i], rec |-> IF ks[i] \in ov THEN Overridden(ks[i]) ELSE Plain(ks[i])]]

required_params == {"n_particle", "random_type", "total_charge"}
TopOptions ==
    { [keys |-> required_params \cup {"start"}, beam |-> EmptyDict],
      [keys |-> required_params \cup {"start", "avg_x", "sigma_x"},
       beam |-> [avg_x |-> 5, sigma_x |-> 4]] }

StartOptions ==
    { [type |-> "cathode", MTE |-> 4],
      [type |-> "cathode"],
      [type |-> "time"],
      [type |-> "time", tstart |-> 2],
      [type |-> "bogus"],
      [str |-> "time"] }

TransformOptions ==
    { [type |-> "translate", variables |-> "pz", delta |-> -3],
      [type |-> "scale", variables |-> "t", scale |-> -2] }
TransformSeqs == UNION {[1..n -> TransformOptions] : n \in 0..MaxTransforms}

(* ---------------- check_input_consistency ---------------- *)
Raise(e, l, p) == [err |-> e, line |-> l, params |-> p]
NoError(p) == [err |-> "", line |-> 0, params |-> p]

allowed_params == required_params \cup {"output", "transforms", "start"}

\* params['start'] == 'time': the start entry compared with a string
StartEqStr(start, s) == Has(start, "str") /\ start.str = s

\* sigma_pxyz, in units where MC2 = 1 and the GB -> eV/c factor is 1
SigmaPxyz(MTE) == ISqrt(MTE)

CathodeDists(ds, MTE) ==
    LET sig == SigmaPxyz(MTE)
        d1 == SetDist(ds, "px", [type |-> "g", sigma_px |-> sig])
        d2 == SetDist(d1, "py", [type |-> "g", sigma_py |-> sig])
    IN SetDist(d2, "pz", [type |-> "g", sigma_pz |-> sig])

OutputDefault(p) == [p EXCEPT !.keys = @ \cup {"output"}]

CheckInputConsistency(p) ==
    LET r == HasDist(p.dists, "r")
        x == HasDist(p.dists, "x")
        y == HasDist(p.dists, "y")
        xy == HasDist(p.dists, "xy")
    IN
    IF \E rp \in required_params : rp \notin p.keys
        THEN Raise("AssertionError", 71, p)
    ELSE IF \E k \in p.keys : k \notin allowed_params
        THEN Raise("AssertionError", 76, p)
    ELSE IF (r \/ x \/ xy) /\ ~Xor(Xor(r, x), xy)
        THEN Raise("AssertionError", 80, p)
    ELSE IF (r \/ y \/ xy) /\ ~Xor(Xor(r, y), xy)
        THEN Raise("AssertionError", 82, p)
    ELSE IF "start" \notin p.keys
        THEN Raise("KeyError", 85, p)
    ELSE IF Has(p.start, "str")
        THEN Raise("TypeError", 85, p)
    ELSE IF p.start.type = "cathode"
        THEN IF ~Has(p.start, "MTE")
             THEN Raise("AssertionError", 91, p)
             ELSE NoError(OutputDefault([p EXCEPT !.dists = CathodeDists(@, p.start.MTE)]))
    ELSE IF StartEqStr(p.start, "time")
        THEN IF ~HasDist(p.dists, "t")
             THEN Raise("KeyError", 104, p)
             ELSE NoError(OutputDefault([p EXCEPT !.dists = PopDist(@, "t")]))
    ELSE NoError(OutputDefault(p))

(* ---------------- state after construction ---------------- *)
Init ==
    /\ \E T \in SUBSET TransverseVars, L \in SUBSET OtherVars, top \in TopOptions,
          st \in StartOptions, tr \in TransformSeqs :
         /\ Cardinality(L) <= MaxOther
         /\ \E ov \in {{}} \cup {{v} : v \in T \cup L} :
              /\ input = [keys |-> IF Len(tr) > 0 THEN top.keys \cup {"transforms"}
                                   ELSE top.keys,
                          beam |-> top.beam,
                          start |-> st,
                          transforms |-> tr,
                          dists |-> MkDists(T \cup L, ov)]
    /\ params = EmptyDict
    /\ pc = "configure"
    /\ err = ""
    /\ errline = 0
    /\ beam_params = EmptyDict
    /\ transforms = <<>>
    /\ dist_params = <<>>
    /\ bdist = EmptyDict
    /\ avgs = EmptyDict
    /\ stds = EmptyDict
    /\ npop = 0
    /\ allocated = FALSE
    /\ rns = <<>>
    /\ count = 0
    /\ reads = <<>>
    /\ pre = EmptyDict
    /\ returned = FALSE

(* ---------------- beam(): configure ---------------- *)
Configure ==
    /\ pc = "configure"
    /\ LET res == CheckInputConsistency(input)
       IN /\ params' = res.params
          /\ err' = res.err
          /\ errline' = res.line
          /\ pc' = IF res.err = "" THEN "init" ELSE "error"
    /\ UNCHANGED <<input, beam_params, transforms, dist_params, bdist, avgs, stds,
                   npop, allocated, rns, count, reads, pre, returned>>

(* ---------------- collaborators: distributions, random stream, moments ---------------- *)
\* Distribution.avg() / .std() / .rms(): a Gaussian "g" takes its moments from
\* its avg_/sigma_ parameters, any other kind from its own parameters.
DistAvg(rec, v) ==
    IF rec.type = "g" THEN (IF Has(rec, "avg_" \o v) THEN rec["avg_" \o v] ELSE 0)
    ELSE rec.m
DistStd(rec, v) == IF rec.type = "g" THEN rec["sigma_" \o v] ELSE rec.s
DistRms(rec) == rec.rms

\* Distribution.cdfinv on one row of uniform samples (quarters 0..3)
Cdfinv(rec, v, urow) == [p \in Particles |-> DistAvg(rec, v) + (urow[p] - 1) * DistStd(rec, v)]

\* Uniform("theta", 0, 2 pi).cdfinv: the angle u * pi/2, kept as the quarter index u
UniformTheta(urow) == [p \in Particles |-> urow[p]]
Cos4(q) == IF q = 0 THEN 1 ELSE IF q = 2 THEN -1 ELSE 0
Sin4(q) == IF q = 1 THEN 1 ELSE IF q = 3 THEN -1 ELSE 0

\* random_generator(shape, sequence): one realisation per seed, rows 0..npop-1
RandomGenerator(n, seed) == [row \in 0..(n - 1) |-> [p \in Particles |-> (row + p * seed) % 4]]

\* empirical std of a two-particle coordinate
Std2(v) == Abs(v[1] - v[2]) \div 2

\* transforms.set_avg_and_std: (raw - mean) * (target_std / std) + target_mean,
\* shift only when std = 0
SetAvgAndStd(v, avg, std) ==
    [p \in Particles |-> avg + Sgn(v[p] - v[Other(p)]) * std]

\* transforms.set_avg: shift only
SetAvg(v, avg) == [p \in Particles |-> avg + (v[p] - v[Other(p)]) \div 2]

\* transforms.transform
Transform(b, T) ==
    LET v == T.variables
    IN IF T.type = "translate"
       THEN [b EXCEPT ![v] = [p \in Particles |-> @[p] + T.delta]]
       ELSE [b EXCEPT ![v] = [p \in Particles |-> @[p] * T.scale]]

(* ---------------- beam(): set-up ---------------- *)
Coords == {"x", "y", "z", "px", "py", "pz", "t"}

InitEnsemble ==
    /\ pc = "init"
    /\ beam_params' = [total_charge |-> 1]
    /\ transforms' = IF "transforms" \in params.keys THEN params.transforms ELSE <<>>
    /\ dist_params' = params.dists
    /\ bdist' = [c \in Coords |-> Zeros]
    /\ avgs' = [c \in Coords |-> 0]
    /\ stds' = [c \in Coords |-> 0]
    /\ pc' = "allocate"
    /\ UNCHANGED <<input, params, err, errline, npop, allocated, rns, count, reads,
                   pre, returned>>

\* number of populations, from the *_dist keys of the configuration
RECURSIVE Npop(_)
Npop(ds) ==
    IF ds = <<>> THEN 0
    ELSE LET vstr == Head(ds).var
         IN (IF vstr \in {"r", "x", "y", "z", "px", "py", "pz", "t", "theta"} THEN 1
             ELSE IF vstr \in {"xy"} THEN 2
             ELSE 0) + Npop(Tail(ds))

AllocateStream ==
    /\ pc = "allocate"
    /\ npop' = Npop(params.dists)
    /\ \E seed \in 0..MaxSeed : rns' = RandomGenerator(npop', seed)
    /\ allocated' = TRUE
    /\ count' = 0
    /\ pc' = "radial"
    /\ UNCHANGED <<input, params, err, errline, beam_params, transforms, dist_params,
                   bdist, avgs, stds, reads, pre, returned>>

\* numpy row index: a negative index counts from the end
RowIndex(idx, n) == IF idx < 0 THEN idx + n ELSE idx
InRange(idx, n) == RowIndex(idx, n) \in 0..(n - 1)

(* ---------------- beam(): radial group ---------------- *)
\* the row read for the implicit uniform theta
ImplicitThetaRow(cnt) == -1

RadialGroup ==
    /\ pc = "radial"
    /\ IF ~HasDist(dist_params, "r")
       THEN /\ pc' = "joint"
            /\ UNCHANGED <<err, errline, dist_params, bdist, avgs, stds, count, reads>>
       ELSE LET rec == GetDist(dist_params, "r")
                count1 == count + 1
            IN IF ~InRange(count, npop)
               THEN /\ pc' = "error" /\ err' = "IndexError" /\ errline' = 210
                    /\ UNCHANGED <<dist_params, bdist, avgs, stds, count, reads>>
               ELSE LET rs == Cdfinv(rec, "r", rns[RowIndex(count, npop)])
                    IN IF ~HasDist(dist_params, "theta")
                       THEN LET trow == RowIndex(ImplicitThetaRow(count1), npop)
                                ths == UniformTheta(rns[trow])
                                avgr == 0
                                rrms == IF Has(rec, "sigma_xy") THEN rec["sigma_xy"]
                                        ELSE IF Has(beam_params, "sigma_xy") THEN beam_params["sigma_xy"]
                                        ELSE DistRms(rec)
                                avgCos == 0
                                avgSin == 0
                            IN /\ bdist' = [bdist EXCEPT
                                              !["x"] = [p \in Particles |-> rs[p] * Cos4(ths[p])],
                                              !["y"] = [p \in Particles |-> rs[p] * Sin4(ths[p])]]
                               /\ avgs' = [avgs EXCEPT !["x"] = avgr * avgCos, !["y"] = avgr * avgSin]
                               \* rrms is in units of sqrt 2 and avgCos2 = avgSin2 = 1/2
                               /\ stds' = [stds EXCEPT !["x"] = rrms, !["y"] = rrms]
                               /\ reads' = reads \o <<[draw |-> "r", row |-> RowIndex(count, npop)],
                                                      [draw |-> "theta", row |-> trow]>>
                               /\ count' = count1
                               /\ dist_params' = PopDist(dist_params, "r")
                               /\ pc' = "joint"
                               /\ UNCHANGED <<err, errline>>
                       ELSE \* explicit theta: ths, avgr, avgCos, rrms are never assigned
                            /\ count' = count1 + 1
                            /\ dist_params' = PopDist(dist_params, "theta")
                            /\ reads' = Append(reads, [draw |-> "r", row |-> RowIndex(count, npop)])
                            /\ pc' = "error" /\ err' = "NameError" /\ errline' = 241
                            /\ UNCHANGED <<bdist, avgs, stds>>
    /\ UNCHANGED <<input, params, beam_params, transforms, npop, allocated, rns, pre, returned>>

(* ---------------- beam(): joint 2-D group ---------------- *)
JointGroup ==
    /\ pc = "joint"
    /\ IF ~HasDist(dist_params, "xy")
       THEN /\ pc' = "scalar"
            /\ UNCHANGED <<err, errline, dist_params, bdist, stds, count, reads>>
       ELSE IF ~(count + 1 <= npop - 1)
       THEN /\ pc' = "error" /\ err' = "ValueError" /\ errline' = 260
            /\ UNCHANGED <<dist_params, bdist, stds, count, reads>>
       ELSE LET rec == GetDist(dist_params, "xy")
                xs == Cdfinv(rec, "xy", rns[count])
                ys == Cdfinv(rec, "xy", rns[count + 1])
            IN /\ bdist' = [bdist EXCEPT !["x"] = xs, !["y"] = ys]
               /\ count' = count + 2
               /\ reads' = reads \o <<[draw |-> "xy", row |-> count],
                                      [draw |-> "xy", row |-> count + 1]>>
               /\ dist_params' = PopDist(dist_params, "xy")
               /\ stds' = [stds EXCEPT !["x"] = Std2(xs), !["y"] = Std2(ys)]
               /\ pc' = "scalar"
               /\ UNCHANGED <<err, errline>>
    /\ UNCHANGED <<input, params, beam_params, transforms, avgs, npop, allocated, rns,
                   pre, returned>>

(* ---------------- beam(): scalar groups ---------------- *)
\* target moments of a scalar coordinate: the record's own avg_/sigma_ entry,
\* else the distribution's avg()/std()
ScalarAvg(rec, x) == IF Has(rec, "avg_" \o x) THEN rec["avg_" \o x] ELSE DistAvg(rec, x)
ScalarStd(rec, x) == IF Has(rec, "sigma_" \o x) THEN rec["sigma_" \o x] ELSE DistStd(rec, x)

ScalarStep(e, st, n, stream) ==
    IF ~InRange(st.count, n)
    THEN [st EXCEPT !.err = "IndexError", !.line = 272]
    ELSE LET x == e.var
             row == RowIndex(st.count, n)
         IN [st EXCEPT !.bdist = Put(@, x, Cdfinv(e.rec, x, stream[row])),
                       !.avgs = Put(@, x, ScalarAvg(e.rec, x)),
                       !.stds = Put(@, x, ScalarStd(e.rec, x)),
                       !.reads = Append(@, [draw |-> x, row |-> row]),
                       !.count = @ + 1]

RECURSIVE ScalarLoop(_, _, _, _)
ScalarLoop(ds, st, n, stream) ==
    IF ds = <<>> \/ st.err # "" THEN st
    ELSE ScalarLoop(Tail(ds), ScalarStep(Head(ds), st, n, stream), n, stream)

ScalarGroups ==
    /\ pc = "scalar"
    /\ LET st == ScalarLoop(dist_params,
                            [bdist |-> bdist, avgs |-> avgs, stds |-> stds, reads |-> reads,
                             count |-> count, err |-> "", line |-> 0],
                            npop, rns)
       IN /\ bdist' = st.bdist
          /\ avgs' = st.avgs
          /\ stds' = st.stds
          /\ reads' = st.reads
          /\ count' = st.count
          /\ err' = st.err
          /\ errline' = st.line
          /\ pc' = IF st.err = "" THEN "overwrite" ELSE "error"
    /\ UNCHANGED <<input, params, beam_params, transforms, dist_params, npop, allocated,
                   rns, pre, returned>>

(* ---------------- beam(): beam-level moment overwrite ---------------- *)
OverwriteStep(x, st, bp) ==
    LET a == IF Has(bp, "avg_" \o x) /\ Has(st.avgs, x) /\ bp["avg_" \o x] # st.avgs[x]
             THEN Put(st.avgs, x, bp["avg_" \o x]) ELSE st.avgs
        s == IF Has(bp, "sigma_" \o x) THEN Put(st.stds, x, bp["sigma_" \o x]) ELSE st.stds
    IN [avgs |-> a, stds |-> s]

OverwriteLoop(st, bp) == OverwriteStep("t", OverwriteStep("y", OverwriteStep("x", st, bp), bp), bp)

OverwriteMoments ==
    /\ pc = "overwrite"
    /\ LET st == OverwriteLoop([avgs |-> avgs, stds |-> stds], beam_params)
       IN avgs' = st.avgs /\ stds' = st.stds
    /\ pc' = "correct"
    /\ UNCHANGED <<input, params, err, errline, beam_params, transforms, dist_params,
                   bdist, npop, allocated, rns, count, reads, pre, returned>>

(* ---------------- beam(): moment correction ---------------- *)
CorrectMoments ==
    /\ pc = "correct"
    /\ bdist' = [c \in DOMAIN bdist |->
                    IF c \in DOMAIN avgs THEN SetAvgAndStd(bdist[c], avgs[c], stds[c])
                    ELSE bdist[c]]
    /\ pc' = "transform"
    /\ UNCHANGED <<input, params, err, errline, beam_params, transforms, dist_params,
                   avgs, stds, npop, allocated, rns, count, reads, pre, returned>>

(* ---------------- beam(): user transforms ---------------- *)
RECURSIVE TransformLoop(_, _)
TransformLoop(b, ts) == IF ts = <<>> THEN b ELSE TransformLoop(Transform(b, Head(ts)), Tail(ts))

ApplyTransforms ==
    /\ pc = "transform"
    /\ bdist' = TransformLoop(bdist, transforms)
    /\ pc' = "start"
    /\ UNCHANGED <<input, params, err, errline, beam_params, transforms, dist_params,
                   avgs, stds, npop, allocated, rns, count, reads, pre, returned>>

(* ---------------- beam(): start-type specific settings ---------------- *)
\* the forward-hemisphere step left out
ForwardHemisphere_skipped(v) == v

\* only take the forward hemisphere
ForwardHemisphere(v) == [p \in Particles |-> Abs(v[p])]

\* the local tstart
TStart(start) == IF Has(start, "tstart") THEN start.tstart ELSE 0
\* the avg_t handed to set_avg
TimeStartAvg(tstart) == 0

StartCondition ==
    /\ pc = "start"
    /\ pre' = bdist
    /\ IF params.start.type = "cathode"
       THEN /\ bdist' = [bdist EXCEPT !["pz"] = ForwardHemisphere(@)]
            /\ pc' = "done" /\ returned' = TRUE
            /\ UNCHANGED <<err, errline>>
       ELSE IF params.start.type = "time"
       THEN /\ bdist' = [bdist EXCEPT !["t"] = SetAvg(@, TimeStartAvg(TStart(params.start)))]
            /\ pc' = "done" /\ returned' = TRUE
            /\ UNCHANGED <<err, errline>>
       ELSE /\ pc' = "error" /\ err' = "ValueError" /\ errline' = 335
            /\ UNCHANGED <<bdist, returned>>
    /\ UNCHANGED <<input, params, beam_params, transforms, dist_params, avgs, stds,
                   npop, allocated, rns, count, reads>>

Next ==
    \/ Configure
    \/ InitEnsemble
    \/ AllocateStream
    \/ RadialGroup
    \/ JointGroup
    \/ ScalarGroups
    \/ OverwriteMoments
    \/ CorrectMoments
    \/ ApplyTransforms
    \/ StartCondition

Spec == Init /\ [][Next]_vars

(* ---------------- sanity of the integer arithmetic ---------------- *)
\* the halvings in SetAvg (on the corrected, transformed ensemble) and in Std2
\* (on the joint samples) are exact
Exact ==
    /\ pc \in {"transform", "start"} =>
          \A c \in DOMAIN bdist : (bdist[c][1] - bdist[c][2]) % 2 = 0
    /\ (pc = "joint" /\ HasDist(dist_params, "xy")) => DistStd(GetDist(dist_params, "xy"), "xy") % 2 = 0

(* ---------------- vocabulary of the properties ---------------- *)
\* check_input_consistency raised
ConfigRejected == pc = "error" /\ errline <= 111
\* check_input_consistency returned normally
Accepted == pc # "configure" /\ ~ConfigRejected
\* the three sampling phases have run to their end
SamplingDone ==
    \/ pc \in {"overwrite", "correct", "transform", "start", "done"}
    \/ (pc = "error" /\ errline = 335)
\* the target moments are final
TargetsDone ==
    \/ pc \in {"correct", "transform", "start", "done"}
    \/ (pc = "error" /\ errline = 335)
InputHas(v) == HasDist(input.dists, v)
NumOf(vs) == Cardinality({v \in vs : InputHas(v)})
Drawn(v) == \E i \in 1..Len(reads) : reads[i].draw = v
BeamLevelKeys == {"avg_x", "sigma_x", "avg_y", "sigma_y", "avg_t", "sigma_t"}

(* ---------------- C1 ---------------- *)
\* C1: once sampling is over, the number of rows read by the inverse-CDF draws
\* (the implicit theta draw included) equals npop, and every row read lies
\* inside the allocated (npop, N) array.
C1_RowsReadEqualNpop ==
    SamplingDone =>
        /\ Len(reads) = npop
        /\ \A i \in 1..Len(reads) : reads[i].row \in 0..(npop - 1)

(* ---------------- C2 ---------------- *)
\* C2: with r_dist and no theta_dist, the implicit theta draw reads a row that
\* no other draw reads: no random row is read by two different draws.
C2_ImplicitThetaRowUnshared ==
    (InputHas("r") /\ ~InputHas("theta")) =>
        \A i, j \in 1..Len(reads) : i # j => reads[i].row # reads[j].row

(* ---------------- C3 ---------------- *)
\* C3: an accepted configuration has at most one of r_dist, x_dist, xy_dist and
\* at most one of r_dist, y_dist, xy_dist.
C3_OneTransverseRequest ==
    Accepted => (NumOf({"r", "x", "xy"}) <= 1 /\ NumOf({"r", "y", "xy"}) <= 1)

(* ---------------- C4 ---------------- *)
\* C4: with a time start, t_dist is gone from the requests after configure(),
\* no draw is made for t, and a time start without t_dist is not rejected for it.
C4_TimeStartDropsTDist ==
    /\ (Accepted /\ params.start.type = "time") =>
          (~HasDist(params.dists, "t") /\ ~Drawn("t"))
    /\ ConfigRejected => errline # 104

(* ---------------- C5 ---------------- *)
\* C5: with a time start, the returned ensemble's average t equals start.tstart
\* when it is given and zero when it is not.
C5_AverageTIsTStart ==
    (pc = "done" /\ params.start.type = "time") =>
        bdist["t"][1] + bdist["t"][2] = 2 * TStart(params.start)

(* ---------------- C6 ---------------- *)
\* C6: with a cathode start, none of the user's z, px, py, pz requests is
\* sampled: px, py, pz come from the substituted Gaussian and no row is read
\* for z.
C6_CathodeDropsUserRequests ==
    (SamplingDone /\ params.start.type = "cathode") =>
        /\ \A v \in {"px", "py", "pz"} :
              /\ GetDist(params.dists, v) =
                    (("sigma_" \o v) :> SigmaPxyz(params.start.MTE)) @@ [type |-> "g"]
              /\ Drawn(v)
        /\ ~Drawn("z")
        /\ bdist["z"] = Zeros

(* ---------------- C7 ---------------- *)
\* C7: with a cathode start, every particle of the returned ensemble has
\* pz >= 0, and its pz is the absolute value of the pz it had after moment
\* correction and after every transform.
C7_ForwardPz ==
    (pc = "done" /\ params.start.type = "cathode") =>
        \A p \in Particles :
            /\ bdist["pz"][p] >= 0
            /\ bdist["pz"][p] = Abs(pre["pz"][p])

\* a cathode run returned whose corrected, transformed pz had a negative entry
C7_Witness ==
    /\ pc = "done"
    /\ returned
    /\ params.start.type = "cathode"
    /\ transforms # <<>>
    /\ \E p \in Particles : pre["pz"][p] < 0 /\ bdist["pz"][p] > 0

(* ---------------- C8 ---------------- *)
\* C8: a start type other than "cathode" or "time" fails the call before the
\* random stream is allocated and before anything is sampled, and nothing is
\* returned.
C8_BadStartTypeFailsEarly ==
    (Has(input.start, "type") /\ input.start.type \notin {"cathode", "time"}) =>
        /\ ~allocated
        /\ reads = <<>>
        /\ ~returned

(* ---------------- C9 ---------------- *)
\* C9: with r_dist and an explicit theta_dist, the radial group completes
\* without error, having read a second row for theta.
C9_ExplicitThetaCompletes ==
    (InputHas("r") /\ InputHas("theta")) =>
        /\ ~(pc = "error" /\ errline \in 203..253)
        /\ (Accepted /\ pc \notin {"init", "allocate", "radial"}) => Drawn("theta")

(* ---------------- C10 ---------------- *)
\* C10: a beam-level avg_/sigma_ for x, y, t is accepted and is the target;
\* otherwise the target is the record's own avg_/sigma_ entry; otherwise the
\* distribution's avg()/std().
C10_TargetPrecedence ==
    /\ (pc = "error" /\ errline = 76) =>
          \E k \in input.keys : k \notin allowed_params /\ k \notin BeamLevelKeys
    /\ TargetsDone =>
          \A c \in {"x", "y", "t"} :
              HasDist(dist_params, c) =>
                  LET rec == GetDist(dist_params, c)
                  IN /\ avgs[c] = IF Has(input.beam, "avg_" \o c) THEN input.beam["avg_" \o c]
                                  ELSE IF Has(rec, "avg_" \o c) THEN rec["avg_" \o c]
                                  ELSE DistAvg(rec, c)
                     /\ stds[c] = IF Has(input.beam, "sigma_" \o c) THEN input.beam["sigma_" \o c]
                                  ELSE IF Has(rec, "sigma_" \o c) THEN rec["sigma_" \o c]
                                  ELSE DistStd(rec, c)
====
